---- MODULE Spec2Model ----
(***************************************************************************)
(* projectable: the in-memory file tree (src/app/filetree.rs) and the      *)
(* application event loop (src/app/mod.rs).                                *)
(*                                                                         *)
(* A Location is a sequence of 0-based child indices.  An Option is a      *)
(* sequence of length at most one: None is <<>>, Some(x) is <<x>>.         *)
(* A path is the sequence of its components.                               *)
(***************************************************************************)
EXTENDS Integers, Sequences, FiniteSets, TLC

\* Largest number of nodes (files and directories) below the root.
MaxNodes == 3

\* Largest number of identifiers in the expand set.
MaxOpened == 1

\* File and directory names (final path components) in use.
Names == {"a", "b"}

\* Largest number of events waiting in the queue.
MaxQueue == 2

\* Largest number of popups, the text popup apart, visible at once.
MaxVisible == 1

\* Names of the entries of the root the App's events refer to.
Paths == {"a", "b"}

\* A path without a parent, as Path::parent sees it.
NoParent == "/"

\* The path the tree was built from.
RootPath == <<"root">>

None == <<>>
Some(x) == <<x>>
Unwrap(o) == o[1]

Front(s) == SubSeq(s, 1, Len(s) - 1)
LastOf(s) == s[Len(s)]

\* Vec::remove(i) on a sequence, i 0-based and in range.
RemoveIdx(s, i) == SubSeq(s, 1, i) \o SubSeq(s, i + 2, Len(s))

(***************************************************************************)
(* crate::dir: Item, Dir, File.                                            *)
(***************************************************************************)
FileItem(p) == [kind |-> "File", path |-> p, children |-> <<>>]
DirItem(p, ch) == [kind |-> "Dir", path |-> p, children |-> ch]

\* Dir::child: bounds-checked lookup of a direct child.
child(d, index) ==
    IF index \in 0..(Len(d.children) - 1) THEN Some(d.children[index + 1]) ELSE None

\* Dir::nested_child / nested_child_mut: iterative descent through location.
RECURSIVE nested_child(_, _)
nested_child(d, location) ==
    IF location = <<>> THEN None
    ELSE LET c == child(d, Head(location)) IN
         IF c = None THEN None
         ELSE IF Len(location) = 1 THEN c
         ELSE IF Unwrap(c).kind = "Dir" THEN nested_child(Unwrap(c), Tail(location))
         ELSE None

\* Dir::remove_child: Err when index is out of range, else the directory without
\* that child and the removed item.
remove_child(d, index) ==
    IF index \in 0..(Len(d.children) - 1)
    THEN [ok |-> TRUE, dir |-> [d EXCEPT !.children = RemoveIdx(@, index)],
          item |-> Some(d.children[index + 1])]
    ELSE [ok |-> FALSE, dir |-> d, item |-> None]

\* Dir::new_file: appends a File named name under this directory's path.
new_file(d, name) ==
    [d EXCEPT !.children = Append(@, FileItem(Append(d.path, name)))]

\* The effect of writing through the &mut Item that nested_child_mut returned:
\* the tree d with the node at location replaced by n.
RECURSIVE StoreAt(_, _, _)
StoreAt(d, location, n) ==
    IF Len(location) = 1
    THEN [d EXCEPT !.children[location[1] + 1] = n]
    ELSE [d EXCEPT !.children[location[1] + 1] = StoreAt(@, Tail(location), n)]

(***************************************************************************)
(* src/app/filetree.rs: free functions.                                    *)
(***************************************************************************)
\* last_of_path: the final component, or "" for a path with none.
last_of_path(path) == IF path = <<>> THEN "" ELSE LastOf(path)

\* TreeItem::new / TreeItem::new_leaf.
TreeItem(text, ch) == [text |-> text, children |-> ch]

RECURSIVE build_filetree(_)
build_filetree(tree) ==
    [i \in 1..Len(tree.children) |->
        LET item == tree.children[i] IN
        IF item.kind = "Dir"
        THEN TreeItem(last_of_path(item.path), build_filetree(item))
        ELSE TreeItem(last_of_path(item.path), <<>>)]

(***************************************************************************)
(* tui_tree_widget::TreeState, as used by Filetree.                        *)
(***************************************************************************)
\* flatten: the identifiers of the visible items in depth-first order; the
\* children of an item are visible when its identifier is opened.
RECURSIVE flatten_from(_, _, _, _)
flatten_from(op, its, current, i) ==
    IF i >= Len(its) THEN <<>>
    ELSE LET id == Append(current, i) IN
         <<id>>
         \o (IF id \in op THEN flatten_from(op, its[i + 1].children, id, 0) ELSE <<>>)
         \o flatten_from(op, its, current, i + 1)

flatten(op, its) == flatten_from(op, its, <<>>, 0)

\* Iterator::position: 0-based index of the first element equal to x, or -1.
Position(s, x) ==
    IF \E k \in 1..Len(s) : s[k] = x
    THEN (CHOOSE k \in 1..Len(s) : s[k] = x /\ \A j \in 1..(k - 1) : s[j] # x) - 1
    ELSE -1

select_first == <<0>>

select_last(op, its) ==
    LET visible == flatten(op, its) IN
    IF visible = <<>> THEN <<>> ELSE LastOf(visible)

Min(a, b) == IF a < b THEN a ELSE b

key_down(sel, op, its) ==
    LET visible == flatten(op, its)
        cur == Position(visible, sel)
        new == IF cur = -1 THEN 0 ELSE Min(cur + 1, Len(visible) - 1)
    IN IF new < Len(visible) THEN visible[new + 1] ELSE <<>>

key_up(sel, op, its) ==
    LET visible == flatten(op, its)
        cur == Position(visible, sel)
        new == IF cur = -1 THEN 0
               ELSE Min(IF cur = 0 THEN 0 ELSE cur - 1, Len(visible) - 1)
    IN IF new < Len(visible) THEN visible[new + 1] ELSE <<>>

\* TreeState::close
close(op, id) == op \ {id}

\* TreeState::toggle_selected: it is given no items, so it flips the membership
\* of whatever is selected; the empty identifier is never opened.
toggle_selected(sel, op) ==
    IF sel \in op THEN close(op, sel)
    ELSE IF sel = <<>> THEN op
    ELSE op \cup {sel}

(***************************************************************************)
(* State: Filetree { state: TreeState { selected, opened }, files: Files   *)
(* { items, dir } }, and a record of the last call and the state it        *)
(* started from.                                                           *)
(***************************************************************************)
VARIABLES
    dir,        \* Files.dir: the root Dir
    items,      \* Files.items: the Projection handed to the tree widget
    selected,   \* TreeState.selected: a Location
    opened,     \* TreeState.opened: the expand set, a set of Locations
    last        \* the last call: op, loc, name, res (ok | err | panic), ret, the
                \* state it started from (prev), and what it undid (undone)

\* App: the event queue, the tree it reconciles, and the update() loop.
VARIABLES
    queue,      \* App.queue: the AppEvents not yet popped
    app_tree,   \* App.tree: the paths the tree holds
    preset,     \* App.text_popup.preset
    pc,         \* "idle": outside update(); "running": at the head of its loop
    handled     \* the step just taken, when it was an iteration of the loop or its
                \* end: the event, the calls made in order, the effect on the
                \* loop (res), and the tree before the step

\* App: what handle_event reads and writes besides the queue and the preset.
VARIABLES
    visible,          \* the popups, other than the text popup, that are visible
    tree_focus,       \* the focus flag of App.tree
    previewer_focus,  \* the focus flag of App.previewer
    should_quit,      \* App.should_quit
    esc_to_close,     \* App.config.esc_to_close
    seen              \* the last handle_event: the event, the result, the arm of
                      \* the key switch it ran, and the state it started from

treevars == <<dir, items, selected, opened, last>>
appvars == <<queue, app_tree, preset, pc, handled>>
evvars == <<visible, tree_focus, previewer_focus, should_quit, esc_to_close, seen>>
vars == <<treevars, appvars, evvars>>

Cur == [dir |-> dir, items |-> items, selected |-> selected, opened |-> opened]

(***************************************************************************)
(* impl Files                                                              *)
(***************************************************************************)
Outcome(res, t, ret) == [res |-> res, t |-> t, ret |-> ret]

\* A remove_file or add_file that returns without rebuilding the Projection.
Files_update_stale(t) == t

\* Files::update
Files_update(t) == [t EXCEPT !.items = build_filetree(t.dir)]

\* A remove_file that indexes the parent's children with location[0] where
\* location[location.len() - 1] is meant.
Files_remove_file_first_index(t, location) ==
    IF Len(location) = 1 THEN
        LET r == remove_child(t.dir, location[1]) IN
        IF r.ok THEN Outcome("ok", Files_update([t EXCEPT !.dir = r.dir]), r.item)
        ELSE Outcome("err", t, None)
    ELSE IF Len(location) = 0 THEN Outcome("panic", t, None)
    ELSE
        LET parent == nested_child(t.dir, Front(location)) IN
        IF parent = None THEN Outcome("err", t, None)
        ELSE IF Unwrap(parent).kind = "Dir" THEN
            LET r == remove_child(Unwrap(parent), location[1]) IN
            IF r.ok
            THEN Outcome("ok",
                         Files_update([t EXCEPT !.dir = StoreAt(@, Front(location), r.dir)]),
                         r.item)
            ELSE Outcome("err", t, None)
        ELSE Outcome("err", t, None)

\* Files::remove_file.  With an empty location, location.len() - 1 underflows:
\* a debug build panics on the subtraction, a release build on the slice
\* &location[..usize::MAX]; either way the call panics.
Files_remove_file(t, location) ==
    IF Len(location) = 1 THEN
        LET r == remove_child(t.dir, location[1]) IN
        IF r.ok THEN Outcome("ok", Files_update([t EXCEPT !.dir = r.dir]), r.item)
        ELSE Outcome("err", t, None)
    ELSE IF Len(location) = 0 THEN Outcome("panic", t, None)
    ELSE
        LET parent == nested_child(t.dir, Front(location)) IN
        IF parent = None THEN Outcome("err", t, None)
        ELSE IF Unwrap(parent).kind = "Dir" THEN
            LET r == remove_child(Unwrap(parent), LastOf(location)) IN
            IF r.ok
            THEN Outcome("ok",
                         Files_update([t EXCEPT !.dir = StoreAt(@, Front(location), r.dir)]),
                         r.item)
            ELSE Outcome("err", t, None)
        ELSE Outcome("err", t, None)

\* Iterator::find over a directory's children: the first whose final path
\* component is name.
FindByName(ch, name) ==
    LET hits == {k \in 1..Len(ch) : last_of_path(ch[k].path) = name} IN
    IF hits = {} THEN None
    ELSE Some(ch[CHOOSE k \in hits : \A j \in hits : k <= j])

\* An add_file that resolves location[..len - 1], as remove_file does, and so
\* adds the File to the parent of the directory it was given.
Files_add_file_in_parent(t, location, name) ==
    LET target == nested_child(t.dir, Front(location)) IN
    IF target = None THEN Outcome("err", t, None)
    ELSE IF Unwrap(target).kind = "Dir" THEN
        LET t2 == Files_update(
                    [t EXCEPT !.dir = StoreAt(@, Front(location),
                                              new_file(Unwrap(target), name))])
            found == FindByName(Unwrap(nested_child(t2.dir, Front(location))).children, name)
        IN IF Unwrap(found).kind = "File" THEN Outcome("ok", t2, found)
           ELSE Outcome("panic", t2, None)
    ELSE Outcome("err", t, None)

\* An add_file that does not ask whether the item it resolved is a Dir.
Files_add_file_any_item(t, location, name) ==
    LET target == nested_child(t.dir, location) IN
    IF target = None THEN Outcome("err", t, None)
    ELSE
        LET t2 == Files_update(
                    [t EXCEPT !.dir = StoreAt(@, location, new_file(Unwrap(target), name))])
            found == FindByName(Unwrap(nested_child(t2.dir, location)).children, name)
        IN IF Unwrap(found).kind = "File" THEN Outcome("ok", t2, found)
           ELSE Outcome("panic", t2, None)

\* An add_file that puts the new File before the directory's children.
Files_add_file_prepends(t, location, name) ==
    LET target == nested_child(t.dir, location) IN
    IF target = None THEN Outcome("err", t, None)
    ELSE IF Unwrap(target).kind = "Dir" THEN
        LET d == Unwrap(target)
            t2 == Files_update(
                    [t EXCEPT !.dir = StoreAt(@, location,
                        [d EXCEPT !.children = <<FileItem(Append(d.path, name))>> \o @])])
            found == FindByName(Unwrap(nested_child(t2.dir, location)).children, name)
        IN IF Unwrap(found).kind = "File" THEN Outcome("ok", t2, found)
           ELSE Outcome("panic", t2, None)
    ELSE Outcome("err", t, None)

\* Files::add_file.  After the insertion and the rebuild, the first child with
\* that name is looked up; unreachable!() panics when it is a directory.
Files_add_file(t, location, name) ==
    LET target == nested_child(t.dir, location) IN
    IF target = None THEN Outcome("err", t, None)
    ELSE IF Unwrap(target).kind = "Dir" THEN
        LET t2 == Files_update(
                    [t EXCEPT !.dir = StoreAt(@, location, new_file(Unwrap(target), name))])
            d2 == nested_child(t2.dir, location)
            found == IF d2 = None THEN None ELSE FindByName(Unwrap(d2).children, name)
        IN IF d2 = None \/ found = None THEN Outcome("panic", t2, None)
           ELSE IF Unwrap(found).kind = "File" THEN Outcome("ok", t2, found)
           ELSE Outcome("panic", t2, None)
    ELSE Outcome("err", t, None)

(***************************************************************************)
(* impl Filetree                                                           *)
(***************************************************************************)
\* Filetree::get_node
RECURSIVE get_node_from(_, _)
get_node_from(node, places) ==
    IF places = <<>> THEN Some(node)
    ELSE IF node.kind = "Dir" THEN
        LET c == child(node, Head(places)) IN
        IF c = None THEN None ELSE get_node_from(Unwrap(c), Tail(places))
    ELSE None

\* A get_node that takes the empty place for the root.
get_node_root_for_empty(t, place) ==
    IF place = <<>> THEN Some(t.dir)
    ELSE LET c == child(t.dir, Head(place)) IN
         IF c = None THEN None ELSE get_node_from(Unwrap(c), Tail(place))

get_node(t, place) ==
    IF place = <<>> THEN None
    ELSE LET c == child(t.dir, Head(place)) IN
         IF c = None THEN None ELSE get_node_from(Unwrap(c), Tail(place))

\* get_node as a call: &self, so the state is the one it was given.
Filetree_get_node(t, place) == Outcome("ok", t, get_node(t, place))

\* Filetree::get_selected: expect() panics on None.
Filetree_get_selected(t) ==
    LET n == get_node(t, t.selected) IN
    IF n = None THEN Outcome("panic", t, None) ELSE Outcome("ok", t, n)

\* A remove_file that closes the parent of the selected identifier.
Filetree_remove_file_closes_parent(t, location) ==
    LET r == Files_remove_file(t, location) IN
    IF r.res = "ok"
    THEN Outcome("ok", [r.t EXCEPT !.opened = close(@, Front(t.selected))], r.ret)
    ELSE r

\* Filetree::remove_file: on success closes the selected identifier.
Filetree_remove_file(t, location) ==
    LET r == Files_remove_file(t, location) IN
    IF r.res = "ok"
    THEN Outcome("ok", [r.t EXCEPT !.opened = close(@, t.selected)], r.ret)
    ELSE r

\* Filetree::add_file: Files::add_file, whose File handle it then drops.  The
\* outcome keeps the handle Files::add_file returned.
Filetree_add_file(t, location, name) == Files_add_file(t, location, name)

\* Filetree::remove_selected
Filetree_remove_selected(t) == Filetree_remove_file(t, t.selected)

Filetree_first(t) == [t EXCEPT !.selected = select_first]
Filetree_last(t) == [t EXCEPT !.selected = select_last(t.opened, t.items)]
\* A toggle that also drops the nested items from the Projection.
Filetree_toggle_prunes(t) ==
    [t EXCEPT !.opened = toggle_selected(t.selected, t.opened),
              !.items = [i \in 1..Len(t.items) |-> TreeItem(t.items[i].text, <<>>)]]

Filetree_toggle(t) == [t EXCEPT !.opened = toggle_selected(t.selected, t.opened)]
Filetree_down(t) == [t EXCEPT !.selected = key_down(t.selected, t.opened, t.items)]
Filetree_up(t) == [t EXCEPT !.selected = key_up(t.selected, t.opened, t.items)]

(***************************************************************************)
(* Bounded inputs.                                                         *)
(***************************************************************************)
RECURSIVE NodeCount(_)
NodeCount(d) ==
    LET RECURSIVE Sum(_)
        Sum(k) == IF k = 0 THEN 0 ELSE 1 + NodeCount(d.children[k]) + Sum(k - 1)
    IN Sum(Len(d.children))

\* Sibling names a directory scan can produce: no two entries share a name.
NameOf(item) == last_of_path(item.path)

RECURSIVE ForestsOf(_, _), TreesOf(_, _)
TreesOf(n, p) ==
    (IF n = 1 THEN {FileItem(Append(p, nm)) : nm \in Names} ELSE {})
    \cup UNION {{DirItem(Append(p, nm), ch) : ch \in ForestsOf(n - 1, Append(p, nm))}
                : nm \in Names}

ForestsOf(n, p) ==
    IF n = 0 THEN {<<>>}
    ELSE UNION {UNION {{<<x>> \o rest :
                            rest \in {r \in ForestsOf(n - k, p) :
                                        \A j \in 1..Len(r) : NameOf(r[j]) # NameOf(x)}}
                       : x \in TreesOf(k, p)}
                : k \in 1..n}

\* The trees DirBuilder can build: at most MaxNodes nodes.
InitDirs == UNION {{DirItem(RootPath, ch) : ch \in ForestsOf(n, RootPath)} : n \in 0..MaxNodes}

\* Number of children of the node a Location addresses (the root for <<>>), 0 for
\* a File or an invalid Location.
Arity(d, loc) ==
    IF loc = <<>> THEN Len(d.children)
    ELSE LET n == nested_child(d, loc) IN IF n = None THEN 0 ELSE Len(Unwrap(n).children)

\* The Locations that resolve to a node of d.
RECURSIVE ValidBelow(_, _)
ValidBelow(node, loc) ==
    UNION {{Append(loc, i - 1)} \cup ValidBelow(node.children[i], Append(loc, i - 1))
           : i \in 1..Len(node.children)}

ValidLocs(d) == ValidBelow(d, <<>>)

\* Invalid Locations one step off the tree: one index past a directory's
\* children (past the root's for <<>>), or below a File.
OffByOne(d) == {Append(loc, Arity(d, loc)) : loc \in ValidLocs(d) \cup {<<>>}}

\* Locations passed to add_file: the empty one, every valid one, and the invalid
\* ones one step off the tree.
AddLocs(d) == {<<>>} \cup ValidLocs(d) \cup OffByOne(d)

\* Locations passed to remove_file: those, and the ones whose parent is already
\* invalid.
RemoveLocs(d) == AddLocs(d) \cup {Append(loc, 0) : loc \in OffByOne(d)}

(***************************************************************************)
(* The state machine.                                                      *)
(***************************************************************************)
\* What the call before an add_file(loc, name) undid, when that call was a
\* successful removal of a node called name from the directory at loc: the index
\* it removed and that directory's children before the removal.
Undone(loc, name) ==
    IF /\ last.op \in {"remove_file", "remove_selected"}
       /\ last.res = "ok"
       /\ Front(last.loc) = loc
       /\ NameOf(Unwrap(last.ret)) = name
    THEN Some([index |-> LastOf(last.loc),
               before |-> IF loc = <<>> THEN last.prev.dir.children
                          ELSE Unwrap(nested_child(last.prev.dir, loc)).children])
    ELSE None

\* A panic ends the program.
Alive == last.res # "panic"

Call(op, loc, name, r, undone) ==
    /\ UNCHANGED <<appvars, evvars>>
    /\ dir' = r.t.dir
    /\ items' = r.t.items
    /\ selected' = r.t.selected
    /\ opened' = r.t.opened
    /\ last' = [op |-> op, loc |-> loc, name |-> name, res |-> r.res, ret |-> r.ret,
                prev |-> Cur, undone |-> undone]

\* Filetree::from_dir
TreeInit ==
    /\ dir \in InitDirs
    /\ items = build_filetree(dir)
    /\ selected = select_first
    /\ opened = {}
    /\ last = [op |-> "from_dir", loc |-> <<>>, name |-> "", res |-> "ok", ret |-> None,
               prev |-> Cur, undone |-> None]

NoEvent == [kind |-> "none", path |-> "", to |-> ""]

NotHandled == [ev |-> NoEvent, calls |-> <<>>, res |-> "none", before |-> {}]

\* App::new: an empty queue.
AppInit ==
    /\ queue = <<>>
    /\ app_tree \in SUBSET Paths
    /\ preset = "Nothing"
    /\ pc = "idle"
    /\ handled = NotHandled

\* The popups App::new builds, the text popup apart.
Popups == {"pending", "input_box", "file_cmd_popup", "marks_popup", "fuzzy_matcher"}

NoExternalEvent == [kind |-> "none", key |-> ""]

EvCur ==
    [visible |-> visible, preset |-> preset, tree_focus |-> tree_focus,
     previewer_focus |-> previewer_focus, should_quit |-> should_quit, queue |-> queue]

\* App::new: no popup is open, should_quit is false; the configuration is read.
EventInit ==
    /\ visible = {}
    /\ tree_focus = TRUE
    /\ previewer_focus = TRUE
    /\ should_quit = FALSE
    /\ esc_to_close \in BOOLEAN
    /\ seen = [ev |-> NoExternalEvent, res |-> "none", arm |-> "none", before |-> EvCur]

Init == TreeInit /\ AppInit /\ app_tree = {} /\ EventInit /\ esc_to_close = FALSE

First ==
    /\ Alive
    /\ Call("first", <<>>, "", Outcome("ok", Filetree_first(Cur), None), None)

Last ==
    /\ Alive
    /\ Call("last", <<>>, "", Outcome("ok", Filetree_last(Cur), None), None)

Toggle ==
    /\ Alive
    /\ selected \in opened \/ Cardinality(opened) < MaxOpened
    /\ Call("toggle", <<>>, "", Outcome("ok", Filetree_toggle(Cur), None), None)

Down ==
    /\ Alive
    /\ Call("down", <<>>, "", Outcome("ok", Filetree_down(Cur), None), None)

Up ==
    /\ Alive
    /\ Call("up", <<>>, "", Outcome("ok", Filetree_up(Cur), None), None)

GetSelected ==
    /\ Alive
    /\ Call("get_selected", <<>>, "", Filetree_get_selected(Cur), None)

GetNode ==
    /\ Alive
    /\ \E place \in AddLocs(dir) :
        Call("get_node", place, "", Filetree_get_node(Cur, place), None)

RemoveSelected ==
    /\ Alive
    /\ Call("remove_selected", selected, "", Filetree_remove_selected(Cur), None)

RemoveFile ==
    /\ Alive
    /\ \E loc \in RemoveLocs(dir) :
        Call("remove_file", loc, "", Filetree_remove_file(Cur, loc), None)

AddFile ==
    /\ Alive
    /\ NodeCount(dir) < MaxNodes
    /\ \E loc \in AddLocs(dir), name \in Names :
        Call("add_file", loc, name, Filetree_add_file(Cur, loc, name), Undone(loc, name))

Next ==
    \/ First \/ Last \/ Toggle \/ Down \/ Up
    \/ GetSelected \/ GetNode \/ RemoveSelected
    \/ RemoveFile \/ AddFile

Spec == Init /\ [][Next]_vars

(***************************************************************************)
(* src/app/mod.rs: App::update.  Each arm of the match is an operator from *)
(* the event, the App's state a = [tree, preset] and the outcomes of the   *)
(* external calls, to the calls made in order, the effect on the loop      *)
(* ("continue", "Err", or the TerminalEvent returned) and the state left.  *)
(***************************************************************************)
Arm(calls, res, a) == [calls |-> calls, res |-> res, a |-> a]

Made(name, ok) == [call |-> name, ok |-> ok]

\* Filetree::partial_refresh(RefreshData::Delete(path)): NotFound when the tree
\* does not hold path.
partial_refresh_delete(t, path) ==
    IF path \in t THEN [ok |-> TRUE, tree |-> t \ {path}] ELSE [ok |-> FALSE, tree |-> t]

\* Filetree::partial_refresh(RefreshData::Add(path)): the parent is the root.
partial_refresh_add(t, path) == [ok |-> TRUE, tree |-> t \cup {path}]

\* Filetree::rename(old, new): the node keeps its place under its new path.
tree_rename(t, old, new) ==
    IF old \in t THEN [ok |-> TRUE, tree |-> (t \ {old}) \cup {new}]
    ELSE [ok |-> FALSE, tree |-> t]

\* Filetree::move_item(from, to): a delete of from followed by an add of to.
tree_move_item(t, from, to) ==
    LET d == partial_refresh_delete(t, from) IN
    IF d.ok THEN partial_refresh_add(d.tree, to) ELSE d

\* A disk operation, then, only if it succeeded, the tree call, whose error is
\* returned too.
DiskThenTree(a, disk, disk_ok, treecall, r) ==
    IF ~disk_ok THEN Arm(<<Made(disk, FALSE)>>, "Err", a)
    ELSE IF ~r.ok THEN Arm(<<Made(disk, TRUE), Made(treecall, FALSE)>>, "Err", a)
    ELSE Arm(<<Made(disk, TRUE), Made(treecall, TRUE)>>, "continue",
             [a EXCEPT !.tree = r.tree])

\* A tree call made first, and the disk operation after it.
arm_DeleteFile_refresh_first(ev, a, is_file, disk_ok, preview_ok) ==
    LET disk == IF is_file THEN "fs::remove_file" ELSE "fs::remove_dir_all"
        r == partial_refresh_delete(a.tree, ev.path)
    IN IF ~r.ok THEN Arm(<<Made("partial_refresh", FALSE)>>, "Err", a)
       ELSE IF ~disk_ok
       THEN Arm(<<Made("partial_refresh", TRUE), Made(disk, FALSE)>>, "Err",
                [a EXCEPT !.tree = r.tree])
       ELSE Arm(<<Made("partial_refresh", TRUE), Made(disk, TRUE)>>, "continue",
                [a EXCEPT !.tree = r.tree])

\* AppEvent::DeleteFile: after the refresh, the selected item, if any, is
\* previewed, and a failure of that is returned as well.
arm_DeleteFile(ev, a, is_file, disk_ok, preview_ok) ==
    LET disk == IF is_file THEN "fs::remove_file" ELSE "fs::remove_dir_all"
        d == DiskThenTree(a, disk, disk_ok, "partial_refresh",
                          partial_refresh_delete(a.tree, ev.path))
    IN IF d.res = "continue" /\ d.a.tree # {}
       THEN Arm(Append(d.calls, Made("preview_file", preview_ok)),
                IF preview_ok THEN "continue" ELSE "Err", d.a)
       ELSE d

\* AppEvent::NewFile
arm_NewFile(ev, a, disk_ok) ==
    DiskThenTree(a, "File::create", disk_ok, "partial_refresh",
                 partial_refresh_add(a.tree, ev.path))

\* AppEvent::NewDir
arm_NewDir(ev, a, disk_ok) ==
    DiskThenTree(a, "fs::create_dir", disk_ok, "partial_refresh",
                 partial_refresh_add(a.tree, ev.path))

\* AppEvent::RenameFile: old.parent() is asked first.
arm_RenameFile(ev, a, disk_ok) ==
    IF ev.path = NoParent THEN Arm(<<>>, "Err", a)
    ELSE DiskThenTree(a, "mv", disk_ok, "rename", tree_rename(a.tree, ev.path, ev.to))

\* AppEvent::MoveFile
arm_MoveFile(ev, a, disk_ok) ==
    DiskThenTree(a, "mv", disk_ok, "move_item", tree_move_item(a.tree, ev.path, ev.to))

\* AppEvent::OpenFile
arm_OpenFile(ev, a) == Arm(<<>>, "OpenFile", a)

\* AppEvent::PreviewFile, GotoFile, FilterFor: one fallible call.
arm_Fallible(name, a, ok) ==
    Arm(<<Made(name, ok)>>, IF ok THEN "continue" ELSE "Err", a)

\* AppEvent::OpenPopup, OpenInput, TogglePreviewMode, SearchFiles,
\* SpecialCommand, Mark, OpenFuzzy: a component is told, nothing can fail.
arm_Plain(a) == Arm(<<>>, "continue", a)

\* AppEvent::RunCommand: a command without the "!!" prefix runs threaded.
arm_RunCommand(a, threaded) ==
    IF threaded THEN Arm(<<>>, "RunCommandThreaded", [a EXCEPT !.preset = "RunningCommand"])
    ELSE Arm(<<>>, "RunCommand", a)

\* AppEvent::RunCommandWithTmux: skipped outside tmux, else tmux is run.
arm_RunCommandWithTmux(a, in_tmux, ok) ==
    IF ~in_tmux THEN Arm(<<>>, "continue", a)
    ELSE Arm(<<Made("tmux", ok)>>, IF ok THEN "continue" ELSE "Err", a)

\* AppEvent::StopAllCommands
arm_StopAllCommands(a) == Arm(<<>>, "StopAllCommands", [a EXCEPT !.preset = "Nothing"])

DiskKinds == {"DeleteFile", "NewFile", "NewDir", "RenameFile", "MoveFile"}
FallibleKinds == {"PreviewFile", "GotoFile", "FilterFor"}
PlainKinds == {"OpenPopup", "OpenInput", "TogglePreviewMode", "SearchFiles",
               "SpecialCommand", "Mark", "OpenFuzzy"}
TerminalKinds == {"OpenFile", "RunCommand", "StopAllCommands"}

Event(kind, path, to) == [kind |-> kind, path |-> path, to |-> to]

\* The events the components queue.
AppEvents ==
    {Event(k, p, "") : k \in {"DeleteFile", "NewFile", "NewDir"}, p \in Paths}
    \cup {Event("RenameFile", p, q) : p \in Paths \cup {NoParent}, q \in Paths}
    \cup {Event("MoveFile", p, q) : p \in Paths, q \in Paths}
    \cup {Event(k, "", "") : k \in FallibleKinds \cup PlainKinds \cup TerminalKinds
                                   \cup {"RunCommandWithTmux"}}

\* Queue::add, Queue::pop.
queue_add(q, ev) == Append(q, ev)
queue_pop(q) == [ev |-> q[Len(q)], rest |-> SubSeq(q, 1, Len(q) - 1)]

AppCur == [tree |-> app_tree, preset |-> preset]

\* A component queues an event; update() is not running then.
Enqueue ==
    /\ pc = "idle"
    /\ Len(queue) < MaxQueue
    /\ \E ev \in AppEvents : queue' = queue_add(queue, ev)
    /\ handled' = NotHandled
    /\ UNCHANGED <<app_tree, preset, pc, treevars, evvars>>

\* update() is called.
UpdateCall ==
    /\ pc = "idle"
    /\ pc' = "running"
    /\ handled' = NotHandled
    /\ UNCHANGED <<queue, app_tree, preset, treevars, evvars>>

\* An iteration that, when it leaves update(), throws the waiting events away.
Iterate_drains(r) ==
    /\ queue' = IF r.res = "continue" THEN queue_pop(queue).rest ELSE <<>>
    /\ app_tree' = r.a.tree
    /\ preset' = r.a.preset
    /\ pc' = IF r.res = "continue" THEN "running" ELSE "idle"
    /\ handled' = [ev |-> queue_pop(queue).ev, calls |-> r.calls, res |-> r.res,
                   before |-> app_tree]
    /\ UNCHANGED <<treevars, evvars>>

\* One iteration of the while-let loop: the event popped and the arm r run on it.
Iterate(r) ==
    /\ queue' = queue_pop(queue).rest
    /\ app_tree' = r.a.tree
    /\ preset' = r.a.preset
    /\ pc' = IF r.res = "continue" THEN "running" ELSE "idle"
    /\ handled' = [ev |-> queue_pop(queue).ev, calls |-> r.calls, res |-> r.res,
                   before |-> app_tree]
    /\ UNCHANGED <<treevars, evvars>>

Popped(kinds) ==
    /\ pc = "running"
    /\ queue # <<>>
    /\ queue_pop(queue).ev.kind \in kinds

Ev == queue_pop(queue).ev

OnDeleteFile ==
    /\ Popped({"DeleteFile"})
    /\ \E is_file \in BOOLEAN, disk_ok \in BOOLEAN, preview_ok \in BOOLEAN :
        Iterate(arm_DeleteFile(Ev, AppCur, is_file, disk_ok, preview_ok))

OnNewFile ==
    /\ Popped({"NewFile"})
    /\ \E disk_ok \in BOOLEAN : Iterate(arm_NewFile(Ev, AppCur, disk_ok))

OnNewDir ==
    /\ Popped({"NewDir"})
    /\ \E disk_ok \in BOOLEAN : Iterate(arm_NewDir(Ev, AppCur, disk_ok))

OnRenameFile ==
    /\ Popped({"RenameFile"})
    /\ \E disk_ok \in BOOLEAN : Iterate(arm_RenameFile(Ev, AppCur, disk_ok))

OnMoveFile ==
    /\ Popped({"MoveFile"})
    /\ \E disk_ok \in BOOLEAN : Iterate(arm_MoveFile(Ev, AppCur, disk_ok))

OnOpenFile ==
    /\ Popped({"OpenFile"})
    /\ Iterate(arm_OpenFile(Ev, AppCur))

OnFallible ==
    /\ Popped(FallibleKinds)
    /\ \E ok \in BOOLEAN : Iterate(arm_Fallible(Ev.kind, AppCur, ok))

OnPlain ==
    /\ Popped(PlainKinds)
    /\ Iterate(arm_Plain(AppCur))

OnRunCommand ==
    /\ Popped({"RunCommand"})
    /\ \E threaded \in BOOLEAN : Iterate(arm_RunCommand(AppCur, threaded))

OnRunCommandWithTmux ==
    /\ Popped({"RunCommandWithTmux"})
    /\ \E in_tmux \in BOOLEAN, ok \in BOOLEAN :
        Iterate(arm_RunCommandWithTmux(AppCur, in_tmux, ok))

OnStopAllCommands ==
    /\ Popped({"StopAllCommands"})
    /\ Iterate(arm_StopAllCommands(AppCur))

\* The queue is empty: update() returns Ok(None).
UpdateReturnNone ==
    /\ pc = "running"
    /\ queue = <<>>
    /\ pc' = "idle"
    /\ handled' = [ev |-> NoEvent, calls |-> <<>>, res |-> "None", before |-> app_tree]
    /\ UNCHANGED <<queue, app_tree, preset, treevars, evvars>>

AppNext ==
    \/ Enqueue \/ UpdateCall \/ UpdateReturnNone
    \/ OnDeleteFile \/ OnNewFile \/ OnNewDir \/ OnRenameFile \/ OnMoveFile
    \/ OnOpenFile \/ OnFallible \/ OnPlain
    \/ OnRunCommand \/ OnRunCommandWithTmux \/ OnStopAllCommands

\* The App with its file tree left alone.
InitApp ==
    dir = DirItem(RootPath, <<>>) /\ TreeInit /\ AppInit /\ EventInit /\ esc_to_close = FALSE

SpecApp == InitApp /\ [][AppNext]_vars

(***************************************************************************)
(* src/app/mod.rs: App::handle_event.  The components' own handle_event are *)
(* given by what they may do to their visibility: a popup that is visible  *)
(* may close itself on a key (closed, text_closed), and any of them may    *)
(* return an error (comp_ok), which handle_event returns at once.          *)
(***************************************************************************)
Keys == {"quit", "help", "marks_open", "esc", "kill_processes", "other"}

ExternalEvents ==
    {[kind |-> "Key", key |-> k] : k \in Keys}
    \cup {[kind |-> "CommandOutput", key |-> ""], [kind |-> "Other", key |-> ""]}

Handled(a, arm, res) == [a |-> a, arm |-> arm, res |-> res]

\* Popup::visible for the text popup: it shows a preset.
text_popup_visible(a) == a.preset # "Nothing"

\* The `||` chain at the head of handle_event.
popup_open_of(a) == a.visible # {} \/ text_popup_visible(a)

\* The eight component.handle_event(ev)? calls.
components_handle_event(a, closed, text_closed) ==
    [a EXCEPT !.visible = @ \ closed,
              !.preset = IF text_closed THEN "Nothing" ELSE @]

\* switch! { key; .. }: the first arm whose key matches.
key_switch(a, key, esc) ==
    IF key = "quit" THEN Handled([a EXCEPT !.should_quit = TRUE], "quit", "Ok")
    ELSE IF key = "help" THEN Handled([a EXCEPT !.preset = "Help"], "help", "Ok")
    ELSE IF key = "marks_open"
    THEN Handled([a EXCEPT !.visible = @ \cup {"marks_popup"}], "marks_open", "Ok")
    ELSE IF key = "esc" /\ esc THEN Handled([a EXCEPT !.should_quit = TRUE], "esc", "Ok")
    ELSE IF key = "kill_processes"
    THEN Handled([a EXCEPT !.queue = queue_add(@, Event("StopAllCommands", "", ""))],
                 "kill_processes", "Ok")
    ELSE Handled(a, "none", "Ok")

\* A handle_event that asks whether a popup is open when it reaches the match.
App_handle_event_asks_late(a, ev, esc, closed, text_closed, comp_ok) ==
    LET popup_open == popup_open_of(a)
        a1 == [a EXCEPT !.tree_focus = ~popup_open, !.previewer_focus = ~popup_open]
        a2 == components_handle_event(a1, closed, text_closed)
    IN IF ~comp_ok THEN Handled(a2, "none", "Err")
       ELSE IF ev.kind = "Key" THEN
            IF popup_open_of(a2) THEN Handled(a2, "none", "Ok")
            ELSE key_switch(a2, ev.key, esc)
       ELSE IF ev.kind = "CommandOutput"
       THEN Handled([a2 EXCEPT !.preset = "Nothing"], "none", "Ok")
       ELSE Handled(a2, "none", "Ok")

\* App::handle_event
App_handle_event(a, ev, esc, closed, text_closed, comp_ok) ==
    LET popup_open == popup_open_of(a)
        a1 == [a EXCEPT !.tree_focus = ~popup_open, !.previewer_focus = ~popup_open]
        a2 == components_handle_event(a1, closed, text_closed)
    IN IF ~comp_ok THEN Handled(a2, "none", "Err")
       ELSE IF ev.kind = "Key" THEN
            IF popup_open THEN Handled(a2, "none", "Ok")
            ELSE key_switch(a2, ev.key, esc)
       ELSE IF ev.kind = "CommandOutput"
       THEN Handled([a2 EXCEPT !.preset = "Nothing"], "none", "Ok")
       ELSE Handled(a2, "none", "Ok")

\* handle_event(ev) as a step, r what it did.
Handle(ev, r) ==
    /\ visible' = r.a.visible
    /\ preset' = r.a.preset
    /\ tree_focus' = r.a.tree_focus
    /\ previewer_focus' = r.a.previewer_focus
    /\ should_quit' = r.a.should_quit
    /\ queue' = r.a.queue
    /\ seen' = [ev |-> ev, res |-> r.res, arm |-> r.arm, before |-> EvCur]
    /\ UNCHANGED <<treevars, app_tree, pc, handled, esc_to_close>>

\* A key: the visible popups may close themselves on it.  The program's loop
\* ends once should_quit is set.
HandleKey ==
    /\ ~should_quit
    /\ \E k \in Keys, closed \in SUBSET visible, text_closed \in BOOLEAN, comp_ok \in BOOLEAN :
        /\ text_closed => text_popup_visible(EvCur)
        /\ k = "kill_processes" => Len(queue) < MaxQueue
        /\ Handle([kind |-> "Key", key |-> k],
                  App_handle_event(EvCur, [kind |-> "Key", key |-> k], esc_to_close,
                                   closed, text_closed, comp_ok))

HandleCommandOutput ==
    /\ ~should_quit
    /\ \E comp_ok \in BOOLEAN :
        Handle([kind |-> "CommandOutput", key |-> ""],
               App_handle_event(EvCur, [kind |-> "CommandOutput", key |-> ""], esc_to_close,
                                {}, FALSE, comp_ok))

HandleOther ==
    /\ ~should_quit
    /\ \E comp_ok \in BOOLEAN :
        Handle([kind |-> "Other", key |-> ""],
               App_handle_event(EvCur, [kind |-> "Other", key |-> ""], esc_to_close,
                                {}, FALSE, comp_ok))

\* update() opens a popup: OpenPopup, OpenInput, SearchFiles / OpenFuzzy and
\* SpecialCommand set the operation of theirs.
PopupOpens ==
    /\ ~should_quit
    /\ Cardinality(visible) < MaxVisible
    /\ \E p \in Popups \ {"marks_popup"} : visible' = visible \cup {p}
    /\ UNCHANGED <<treevars, appvars, tree_focus, previewer_focus, should_quit,
                   esc_to_close, seen>>

\* update() starts a threaded command: the text popup shows RunningCommand.
CommandStarts ==
    /\ ~should_quit
    /\ preset' = "RunningCommand"
    /\ UNCHANGED <<treevars, queue, app_tree, pc, handled, visible, tree_focus,
                   previewer_focus, should_quit, esc_to_close, seen>>

EventNext ==
    \/ HandleKey \/ HandleCommandOutput \/ HandleOther
    \/ PopupOpens \/ CommandStarts

InitEvents ==
    dir = DirItem(RootPath, <<>>) /\ TreeInit /\ AppInit /\ app_tree = {} /\ EventInit

SpecEvents == InitEvents /\ [][EventNext]_vars

(***************************************************************************)
(* Properties of App::handle_event.                                        *)
(***************************************************************************)
\* Some popup, the text popup included, was visible when the event arrived.
PopupWasOpen == seen.before.visible # {} \/ seen.before.preset # "Nothing"

\* C14: after handle_event the tree and the previewer have focus exactly when
\* no popup was visible when the event arrived; and a key that arrived while a
\* popup was visible has not set should_quit, shown the help, opened the marks
\* popup or queued StopAllCommands, whether or not a popup closed on that key.
C14_PopupsKeepTheKeys ==
    seen.ev.kind # "none" =>
        /\ tree_focus = ~PopupWasOpen
        /\ previewer_focus = ~PopupWasOpen
        /\ (seen.ev.kind = "Key" /\ PopupWasOpen) =>
            /\ seen.arm = "none"
            /\ should_quit = seen.before.should_quit
            /\ queue = seen.before.queue
            /\ preset = "Help" => seen.before.preset = "Help"
            /\ "marks_popup" \in visible => "marks_popup" \in seen.before.visible

\* The quit key arrived while the only popup was visible, and the popup closed
\* on it.
C14_Witness ==
    /\ seen.ev = [kind |-> "Key", key |-> "quit"]
    /\ seen.res = "Ok"
    /\ seen.before.visible = {"pending"}
    /\ visible = {}
    /\ preset = "Nothing"
    /\ ~should_quit

(***************************************************************************)
(* Properties of App::update.                                              *)
(***************************************************************************)
DiskCalls == {"fs::remove_file", "fs::remove_dir_all", "File::create", "fs::create_dir", "mv"}
TreeCalls == {"partial_refresh", "rename", "move_item"}

\* C4: handling a DeleteFile, NewFile, NewDir, RenameFile or MoveFile event,
\* update makes the tree's reconciliation call only after the disk operation of
\* that event has succeeded; when the disk operation fails, update returns the
\* error, the reconciliation call is not made, and the tree is as it was.
C4_DiskBeforeReconcile ==
    handled.ev.kind \in DiskKinds =>
        LET c == handled.calls IN
        /\ \A k \in 1..Len(c) :
            c[k].call \in TreeCalls =>
                /\ k > 1
                /\ c[k - 1].call \in DiskCalls
                /\ c[k - 1].ok
        /\ (\E j \in 1..Len(c) : c[j].call \in DiskCalls /\ ~c[j].ok) =>
                /\ handled.res = "Err"
                /\ pc = "idle"
                /\ \A k \in 1..Len(c) : c[k].call \notin TreeCalls
                /\ app_tree = handled.before

C4_Witness ==
    /\ handled.ev.kind = "DeleteFile"
    /\ handled.ev.path \in handled.before
    /\ handled.calls = <<Made("fs::remove_file", FALSE)>>
    /\ handled.res = "Err"

TerminalResults == {"OpenFile", "RunCommand", "RunCommandThreaded", "StopAllCommands"}

\* C17: while update runs, each step pops exactly one event, the one pop gives,
\* and handles that one; update goes on after an event that yields neither a
\* TerminalEvent nor an error and returns at the first one that does, with the
\* events behind it left in the queue as they were; OpenFile, RunCommand and
\* StopAllCommands always yield a TerminalEvent; and Ok(None) is returned only
\* from an empty queue.
C17_UpdateConsumesInOrder ==
    [][pc = "running" =>
        IF queue = <<>>
        THEN /\ handled'.res = "None"
             /\ pc' = "idle"
             /\ queue' = queue
        ELSE /\ queue' = queue_pop(queue).rest
             /\ Len(queue') = Len(queue) - 1
             /\ handled'.ev = queue_pop(queue).ev
             /\ handled'.res \in TerminalResults \cup {"Err", "continue"}
             /\ (pc' = "idle") <=> (handled'.res \in TerminalResults \cup {"Err"})
             /\ (pc' = "running") <=> (handled'.res = "continue")
             /\ handled'.ev.kind \in TerminalKinds => handled'.res \in TerminalResults
    ]_vars

\* update has returned a TerminalEvent with an event still waiting.
C17_Witness ==
    /\ handled.res \in TerminalResults
    /\ pc = "idle"
    /\ queue # <<>>

(***************************************************************************)
(* Properties of the file tree.  Prev is the state the last call started   *)
(* from; the lookups below walk the tree directly.                         *)
(***************************************************************************)
Prev == last.prev

Removing == last.op \in {"remove_file", "remove_selected"}

\* The node a valid Location addresses; the root for <<>>.
RECURSIVE At(_, _)
At(node, loc) == IF loc = <<>> THEN node ELSE At(node.children[Head(loc) + 1], Tail(loc))

Resolves(d, loc) == loc \in ValidLocs(d)

IsPrefix(a, b) == Len(a) <= Len(b) /\ SubSeq(b, 1, Len(a)) = a

\* items shows exactly the entries ch, in order, each labelled with its final
\* path component, directories with their entries nested the same way.
RECURSIVE Mirrors(_, _)
Mirrors(its, ch) ==
    /\ Len(its) = Len(ch)
    /\ \A i \in 1..Len(ch) :
        /\ its[i].text = ch[i].path[Len(ch[i].path)]
        /\ Mirrors(its[i].children, ch[i].children)

\* C1: get_selected() never fails: whenever it is called, the selection
\* resolves to a node of the current Directory.
C1_GetSelectedNeverFails == last.op = "get_selected" => last.res = "ok"

\* C2: in every state between calls, the Projection mirrors the current
\* Directory: same nesting, same order, one item per node labelled with the
\* node's final path component.
C2_ProjectionMirrorsDirectory == Mirrors(items, dir.children)

C2_Witness ==
    /\ Removing
    /\ last.res = "ok"
    /\ Len(last.loc) = 2
    /\ items # Prev.items

\* C3: remove_file with a Location, of any length, that addresses no node
\* returns an error and leaves Directory, Projection, selection and expand set
\* unchanged; it never aborts.
C3_InvalidRemoveIsAnError ==
    (Removing /\ ~Resolves(Prev.dir, last.loc)) => (last.res = "err" /\ Cur = Prev)

\* C5 as stated: a successful remove_selected leaves the parent of the removed
\* node, selection[..len-1], absent from the expand set.
C5_ParentCollapsed ==
    (last.op = "remove_selected" /\ last.res = "ok") => Front(last.loc) \notin opened

\* C5 as amended: a successful remove_selected returns the node that was
\* selected, takes it out of the Directory, and removes the selected Location
\* itself, and nothing else, from the expand set.
C5_SelectedClosed ==
    (last.op = "remove_selected" /\ last.res = "ok") =>
        /\ last.loc = Prev.selected
        /\ last.ret = Some(At(Prev.dir, Prev.selected))
        /\ NodeCount(dir) = NodeCount(Prev.dir) - 1 - NodeCount(Unwrap(last.ret))
        /\ opened = Prev.opened \ {Prev.selected}
        /\ selected = Prev.selected

C5_Witness ==
    /\ last.op = "remove_selected"
    /\ last.res = "ok"
    /\ Len(last.loc) = 1
    /\ last.loc \in Prev.opened

\* C6: toggle() flips the membership of the selected Location in the expand set
\* when the selected node is a Directory and changes nothing when it is a File.
C6_ToggleOnlyDirectories ==
    (last.op = "toggle" /\ Resolves(Prev.dir, Prev.selected)) =>
        /\ dir = Prev.dir /\ items = Prev.items /\ selected = Prev.selected
        /\ IF At(Prev.dir, Prev.selected).kind = "Dir"
           THEN /\ (selected \in opened) # (selected \in Prev.opened)
                /\ opened \ {selected} = Prev.opened \ {selected}
           ELSE opened = Prev.opened

\* Where a node that survives the removal of loc is found afterwards: a later
\* sibling of loc, or a node below one, has that index one lower.
Shifted(loc, l) ==
    IF /\ Len(l) >= Len(loc)
       /\ SubSeq(l, 1, Len(loc) - 1) = Front(loc)
       /\ l[Len(loc)] > LastOf(loc)
    THEN [l EXCEPT ![Len(loc)] = @ - 1]
    ELSE l

\* C7: a successful remove_file at L = P ++ [i] returns the node that was at L;
\* the children of the directory at P are the previous ones with element i
\* deleted; every directory that is not P or an ancestor of P is unchanged (at
\* its shifted Location), the ancestors keep their own entries; and the
\* Projection shows exactly the surviving entries in that order.
C7_RemoveDeletesExactlyOne ==
    (Removing /\ last.res = "ok") =>
        LET L == last.loc
            P == Front(L)
            i == LastOf(L)
        IN /\ Resolves(Prev.dir, L)
           /\ last.ret = Some(At(Prev.dir, L))
           /\ At(dir, P).children = RemoveIdx(At(Prev.dir, P).children, i)
           /\ ValidLocs(dir)
                = {Shifted(L, l) : l \in {x \in ValidLocs(Prev.dir) : ~IsPrefix(L, x)}}
           /\ \A l \in ValidLocs(Prev.dir) :
                ~IsPrefix(L, l) =>
                    IF IsPrefix(l, P)
                    THEN /\ At(dir, l).kind = At(Prev.dir, l).kind
                         /\ At(dir, l).path = At(Prev.dir, l).path
                    ELSE At(dir, Shifted(L, l)) = At(Prev.dir, l)
           /\ dir.path = Prev.dir.path
           /\ Mirrors(items, dir.children)

C7_Witness ==
    /\ Removing
    /\ last.res = "ok"
    /\ Len(last.loc) = 2
    /\ LastOf(last.loc) < Len(At(dir, Front(last.loc)).children)

\* C8: add_file on a Location that resolves to a Directory, whatever the
\* directory holds, returns Ok with a File whose final path component is name:
\* the first child, in order, with that name.
C8_AddFileReturnsFirstMatch ==
    (/\ last.op = "add_file"
     /\ Resolves(Prev.dir, last.loc)
     /\ At(Prev.dir, last.loc).kind = "Dir") =>
        /\ last.res = "ok"
        /\ last.ret # None
        /\ Unwrap(last.ret).kind = "File"
        /\ NameOf(Unwrap(last.ret)) = last.name
        /\ \E k \in 1..Len(At(dir, last.loc).children) :
            /\ At(dir, last.loc).children[k] = Unwrap(last.ret)
            /\ \A j \in 1..(k - 1) : NameOf(At(dir, last.loc).children[j]) # last.name

\* C9: up() in a state that first() leaves, and down() in a state that last()
\* leaves, do not move the selection (so neither does any number of them).
C9_BoundariesClamp ==
    /\ (last.op = "up" /\ Prev = Filetree_first(Prev)) => selected = Prev.selected
    /\ (last.op = "down" /\ Prev = Filetree_last(Prev)) => selected = Prev.selected

\* The children the round trip is said to leave in the directory at last.loc.
RoundTripChildren ==
    LET u == Unwrap(last.undone) IN
    Append(RemoveIdx(u.before, u.index),
           FileItem(Append(At(Prev.dir, last.loc).path, last.name)))

\* C10 as stated: removing index i of a directory, any directory, and then
\* calling add_file with the same name on that directory leaves it with the
\* pre-removal children minus the removed one, in order, then the new File.
C10_RoundTripAnyDirectory ==
    (last.op = "add_file" /\ last.undone # None) =>
        At(dir, last.loc).children = RoundTripChildren

\* C10 as amended: the same for a directory that a Location addresses, that is,
\* any directory but the root.
C10_RoundTripBelowRoot ==
    (last.op = "add_file" /\ last.undone # None /\ last.loc # <<>>) =>
        At(dir, last.loc).children = RoundTripChildren

C10_Witness ==
    /\ last.op = "add_file"
    /\ last.undone # None
    /\ last.loc # <<>>
    /\ last.res = "ok"
    /\ Unwrap(last.undone).index < Len(Unwrap(last.undone).before) - 1

\* C11: get_node(L) returns Some(node) exactly when L is non-empty, every index
\* of L is in range at its level and every proper prefix of L is a Directory,
\* and node is then the one that descent reaches; it returns None otherwise,
\* the empty Location included; and it changes nothing.
C11_GetNodeIsTheDescent ==
    last.op = "get_node" =>
        /\ last.res = "ok"
        /\ Cur = Prev
        /\ IF Resolves(dir, last.loc)
           THEN last.ret = Some(At(dir, last.loc))
           ELSE last.ret = None

C11_Witness ==
    /\ last.op = "get_node"
    /\ Len(last.loc) = 2
    /\ last.ret # None
    /\ Unwrap(last.ret).kind = "File"

\* get_node on a place below a File, and on the empty place.
C11_WitnessNone ==
    /\ last.op = "get_node"
    /\ last.ret = None
    /\ Len(last.loc) = 2
    /\ Resolves(dir, Front(last.loc))
    /\ At(dir, Front(last.loc)).kind = "File"

\* C12: add_file with a Location that does not resolve to a Directory (an index
\* out of range, a descent through a File, or a Location that addresses a File)
\* returns an error and leaves the Directory and the Projection unchanged.
C12_InvalidAddIsAnError ==
    (/\ last.op = "add_file"
     /\ ~(Resolves(Prev.dir, last.loc) /\ At(Prev.dir, last.loc).kind = "Dir")) =>
        /\ last.res = "err"
        /\ dir = Prev.dir
        /\ items = Prev.items

\* add_file on a Location that addresses a File.
C12_Witness ==
    /\ last.op = "add_file"
    /\ Resolves(Prev.dir, last.loc)
    /\ At(Prev.dir, last.loc).kind = "File"
    /\ last.res = "err"

\* C13: a successful remove_file(L), L the selection or not, expands no
\* surviving Directory: every directory that survives and was not in the expand
\* set before is not in it afterwards at its new Location, the node now at the
\* vacated index included.
C13_RemoveExpandsNothing ==
    (Removing /\ last.res = "ok") =>
        \A l \in ValidLocs(Prev.dir) :
            (/\ ~IsPrefix(last.loc, l)
             /\ At(Prev.dir, l).kind = "Dir"
             /\ l \notin Prev.opened) => Shifted(last.loc, l) \notin opened

\* C15: a successful add_file leaves the selection and the expand set as they
\* were, and every Location that was valid still resolves to the same node: the
\* same kind and path, and, unless it is the target directory or an ancestor
\* of it, the same subtree; the new File is the last child of the target.
C15_AddFileShiftsNothing ==
    (last.op = "add_file" /\ last.res = "ok") =>
        /\ selected = Prev.selected
        /\ opened = Prev.opened
        /\ At(dir, last.loc).children
             = Append(At(Prev.dir, last.loc).children,
                      FileItem(Append(At(Prev.dir, last.loc).path, last.name)))
        /\ \A l \in ValidLocs(Prev.dir) :
            /\ Resolves(dir, l)
            /\ At(dir, l).kind = At(Prev.dir, l).kind
            /\ At(dir, l).path = At(Prev.dir, l).path
            /\ ~IsPrefix(l, last.loc) => At(dir, l) = At(Prev.dir, l)

\* A File added to a directory that has a child already, while that child is
\* selected.
C15_Witness ==
    /\ last.op = "add_file"
    /\ last.res = "ok"
    /\ Len(At(Prev.dir, last.loc).children) > 0
    /\ selected = Append(last.loc, 0)

\* C16: first, last, up, down and toggle change only the navigation state: the
\* Directory and the Projection after the call are those before it.
C16_NavigationLeavesTheTree ==
    last.op \in {"first", "last", "up", "down", "toggle"} =>
        /\ last.res = "ok"
        /\ dir = Prev.dir
        /\ items = Prev.items

\* A toggle that changed the expand set of a tree with a nested node.
C16_Witness ==
    /\ last.op = "toggle"
    /\ opened # Prev.opened
    /\ \E i \in 1..Len(items) : items[i].children # <<>>

====
